---- MODULE Spec2Model ----
(***************************************************************************)
(* A model of sandbox.py: the polymorphic schema (food trucks, people,     *)
(* employees, customers, menu items, orders), the three add/commit units   *)
(* of main(), the joined query with its eager-load options, and the loop   *)
(* that prints one line per menu item of every order returned.             *)
(*                                                                         *)
(* The data main() writes is an input record, inp.  Fixture is the literal *)
(* data of main(); Init also draws inputs in which one family of fields of *)
(* the fixture is generalised (prices and order contents, the references   *)
(* of the orders, the customer's names, the list of food trucks).          *)
(***************************************************************************)
EXTENDS Integers, Sequences, FiniteSets, TLC

VARIABLES inp,      \* the data main() builds and the literal of the filter
          pc,       \* the statement of main() that runs next
          tk,       \* index of the food truck the add/commit unit is at
          session,  \* db.session: the units added and not yet flushed
          ident,    \* primary keys the session assigned to the objects
          store,    \* the committed tables of the sqlite database
          commits,  \* number of db.session.commit() calls that returned
          runs,     \* number of times query.all() has run (0, then 1)
          results,  \* the list query.all() returned
          ri,       \* render loop: index into results
          todo,     \* render loop: menu items of results[ri] still to print
          out,      \* the result lines printed so far
          fault     \* the exception that ended the run, "none" if none

vars == <<inp, pc, tk, session, ident, store, commits, runs, results, ri,
          todo, out, fault>>

(***************************************************************************)
(* Bound of the model.                                                     *)
(***************************************************************************)
MaxTrucks == 2     \* food trucks in the input (main() builds one)

(***************************************************************************)
(* A NULL column.  sqlite's integer primary keys start at 1.               *)
(***************************************************************************)
NULL == 0

\* Python's None for a String column, and a present value.
None == [present |-> FALSE, v |-> ""]
Some(s) == [present |-> TRUE, v |-> s]

ItemIds == 1..3     \* the three MenuItem(...) of main()
EmpIds == 1..2      \* the two Employee(...) of main()
OrderIds == 1..2    \* the two Order(...) of main()

ItemNames == <<"Super Burrito", "California Burrito", "Shrimp Burrito">>
EmpFirst == <<"Danny", "Sandra">>
EmpLast == <<"Zuko", "Dee">>

\* polymorphic_identity of the mapped classes
FoodTruckIdentity == "food_truck"
TacoTruckIdentity == "taco_truck"
EmployeeIdentity == "employee"
CustomerIdentity == "customer"

(***************************************************************************)
(* The data of main().  The three menu items are in the menu_items list   *)
(* of the first truck.  empTruck[e]: index (in trucks) of the truck whose  *)
(* employees list holds employee e, NULL for an employee built outside any *)
(* truck.  An order names its items, its employee (NULL: none) and whether *)
(* it has the customer (1) or none.                                        *)
(***************************************************************************)
Fixture ==
  [ trucks    |-> << [cls |-> TacoTruckIdentity, name |-> "Hell's Chariot"] >>,
    prices    |-> <<1000, 700, 800>>,
    empTruck  |-> <<1, 1>>,
    first     |-> Some("Frenchy"),
    last      |-> None,
    orders    |-> << [items |-> {1, 2}, emp |-> 1, cust |-> 1],
                     [items |-> {2},    emp |-> 2, cust |-> 1] >>,
    price     |-> 700 ]

Prices == {700, 800, 1000}
FilterPrices == {700, 900}
TruckNames == {"Hell's Chariot", "Greased Lightning"}
TruckClasses == {FoodTruckIdentity, TacoTruckIdentity}
FirstNames == {None, Some(""), Some("Frenchy"), Some("Sandra")}
LastNames == {None, Some(""), Some("Dee")}

TruckRecs == [cls : TruckClasses, name : TruckNames]
TruckLists == UNION { [1..n -> TruckRecs] : n \in 1..MaxTrucks }
OrderRecs == [items : SUBSET ItemIds, emp : {NULL} \cup EmpIds, cust : {NULL, 1}]

\* the fixture with item prices and order contents generalised
StoreInputs ==
  { [Fixture EXCEPT !.prices = pr,
                    !.orders = << [@[1] EXCEPT !.items = a],
                                  [@[2] EXCEPT !.items = b] >>,
                    !.price = p] :
      pr \in [ItemIds -> Prices],
      a \in SUBSET ItemIds, b \in SUBSET ItemIds, p \in FilterPrices }

\* the fixture with the references of the orders and of the employees generalised
RefInputs ==
  { [Fixture EXCEPT !.empTruck = et, !.orders = << o1, o2 >>, !.price = p] :
      et \in [EmpIds -> {NULL, 1}], o1 \in OrderRecs, o2 \in OrderRecs,
      p \in FilterPrices }

\* the fixture with the customer's names generalised
NameInputs ==
  { [Fixture EXCEPT !.first = f, !.last = l, !.price = p] :
      f \in FirstNames, l \in LastNames, p \in FilterPrices }

\* the fixture with the food trucks generalised
TruckInputs ==
  { [Fixture EXCEPT !.trucks = ts, !.price = p] :
      ts \in TruckLists, p \in FilterPrices }

Inputs == StoreInputs \cup RefInputs \cup NameInputs \cup TruckInputs

(***************************************************************************)
(* The tables db.create_all() creates, empty.                              *)
(***************************************************************************)
EmptyStore ==
  [ food_truck       |-> {},   \* [id, type, name]
    taco_truck       |-> {},   \* [id]
    person           |-> {},   \* [id, type, first_name, last_name]
    employee         |-> {},   \* [id, food_truck_id]
    customer         |-> {},   \* [id]
    menu_item        |-> {},   \* [id, price, name, food_truck_id]
    order            |-> {},   \* [id, employee_id, customer_id]
    menu_item_orders |-> {} ]  \* [menu_item_id, order_id]

NoIdent ==
  [ truck |-> [k \in 1..Len(inp.trucks) |-> NULL],
    item  |-> [i \in ItemIds |-> NULL],
    emp   |-> [e \in EmpIds |-> NULL],
    cust  |-> NULL,
    order |-> [o \in OrderIds |-> NULL] ]

Max(S) == CHOOSE m \in S : \A x \in S : x <= m

\* primary_key=True on an Integer column: sqlite gives max(rowid) + 1
NextId(rows) == IF rows = {} THEN 1 ELSE Max({r.id : r \in rows}) + 1

\* the rank of i in the set S of indices, counted from 1
Rank(S, i) == Cardinality({j \in S : j <= i})

(***************************************************************************)
(* The flush of the session: the INSERTs of one unit of work.  A state of  *)
(* the flush is [db, ident, ok]; ok turns FALSE when an INSERT violates a  *)
(* constraint of the schema.                                               *)
(***************************************************************************)

\* variant of UniqueViolation: the column declared without unique=True
UniqueViolationNever(db, name) == FALSE

\* the unique index on food_truck.name: a row with this name exists
UniqueViolation(db, name) == \E r \in db.food_truck : r.name = name

\* the rows of MenuItem i under primary key id
ItemRow(i, id, ftid) ==
  [id |-> id, price |-> inp.prices[i], name |-> ItemNames[i], food_truck_id |-> ftid]

\* the person row of Employee e: joined-table inheritance, type = identity
EmployeePersonRow(e, id) ==
  [id |-> id, type |-> EmployeeIdentity,
   first_name |-> Some(EmpFirst[e]), last_name |-> Some(EmpLast[e])]

\* the person row of the Customer
CustomerPersonRow(id) ==
  [id |-> id, type |-> CustomerIdentity,
   first_name |-> inp.first, last_name |-> inp.last]

\* food_truck_id of an object whose truck index is k, under the keys idn
TruckKey(idn, k) == IF k = NULL THEN NULL ELSE idn.truck[k]

\* INSERT the MenuItems S of the menu_items list of truck k, in list order
InsertItems(st, S, k) ==
  LET base == NextId(st.db.menu_item) - 1
      key(i) == base + Rank(S, i)
  IN [st EXCEPT
        !.db.menu_item = @ \cup
           { ItemRow(i, key(i), TruckKey(st.ident, k)) : i \in S },
        !.ident.item = [i \in ItemIds |-> IF i \in S THEN key(i) ELSE @[i]] ]

\* INSERT the Employees E (not yet persistent): a person row and an employee row
InsertEmployees(st, E) ==
  LET base == NextId(st.db.person) - 1
      key(e) == base + Rank(E, e)
  IN [st EXCEPT
        !.db.person = @ \cup { EmployeePersonRow(e, key(e)) : e \in E },
        !.db.employee = @ \cup
           { [id |-> key(e), food_truck_id |-> TruckKey(st.ident, inp.empTruck[e])] :
               e \in E },
        !.ident.emp = [e \in EmpIds |-> IF e \in E THEN key(e) ELSE @[e]] ]

\* INSERT the Customer: a person row and a customer row
InsertCustomer(st) ==
  LET key == NextId(st.db.person)
  IN [st EXCEPT !.db.person = @ \cup { CustomerPersonRow(key) },
                !.db.customer = @ \cup { [id |-> key] },
                !.ident.cust = key]

\* the unit db.session.add(taco_truck): the truck, its menu_items, its employees
FlushTruck(st, k) ==
  LET t == inp.trucks[k]
      key == NextId(st.db.food_truck)
      s1 == [st EXCEPT
               !.ok = @ /\ ~UniqueViolation(st.db, t.name),
               !.db.food_truck = @ \cup { [id |-> key, type |-> t.cls, name |-> t.name] },
               !.db.taco_truck = IF t.cls = TacoTruckIdentity
                                   THEN @ \cup { [id |-> key] } ELSE @,
               !.ident.truck[k] = key]
      s2 == InsertItems(s1, { i \in ItemIds : k = 1 /\ s1.ident.item[i] = NULL }, k)
  IN InsertEmployees(s2, { e \in EmpIds :
                             inp.empTruck[e] = k /\ s2.ident.emp[e] = NULL })

\* variant of FlushCustomer: the customer is never added to the session
FlushCustomerSkipped(st) == st

\* the unit db.session.add(customer)
FlushCustomer(st) == IF st.ident.cust = NULL THEN InsertCustomer(st) ELSE st

\* the objects the orders reference (save-update cascade of the relationships)
OrderEmps == { inp.orders[o].emp : o \in OrderIds } \ {NULL}
OrderHasCustomer == \E o \in OrderIds : inp.orders[o].cust # NULL

\* the unit db.session.add_all(orders): objects reached by cascade that are
\* not yet persistent, then the order rows and the rows of menu_item_orders
FlushOrders(st) ==
  LET s2 == InsertEmployees(st, { e \in OrderEmps : st.ident.emp[e] = NULL })
      s3 == IF OrderHasCustomer THEN FlushCustomer(s2) ELSE s2
      base == NextId(s3.db.order) - 1
      key(o) == base + o
      ref(idn, x) == IF x = NULL THEN NULL ELSE idn[x]
  IN [s3 EXCEPT
        !.db.order = @ \cup
           { [id |-> key(o),
              employee_id |-> ref(s3.ident.emp, inp.orders[o].emp),
              customer_id |-> IF inp.orders[o].cust = NULL THEN NULL ELSE s3.ident.cust] :
               o \in OrderIds },
        !.db.menu_item_orders = @ \cup UNION
           { { [menu_item_id |-> s3.ident.item[i], order_id |-> key(o)] :
                 i \in inp.orders[o].items } : o \in OrderIds },
        !.ident.order = [o \in OrderIds |-> key(o)] ]

\* the units of the session, flushed in the order they were added
RECURSIVE FlushAll(_, _)
FlushAll(st, units) ==
  IF units = <<>> THEN st
  ELSE LET u == Head(units)
           s1 == IF u[1] = "truck" THEN FlushTruck(st, u[2])
                 ELSE IF u[1] = "customer" THEN FlushCustomer(st)
                 ELSE FlushOrders(st)
       IN FlushAll(s1, Tail(units))

Flushed == FlushAll([db |-> store, ident |-> ident, ok |-> TRUE], session)

(***************************************************************************)
(* The query of main():                                                    *)
(*   query(Order).join(Order.menu_items).join(MenuItem.food_truck)         *)
(*     .options(joinedload ...).filter(MenuItem.price == p)                *)
(***************************************************************************)

\* order o is linked to menu item mi in menu_item_orders (the inputs give
\* an order each of its items once, so the table is a set of pairs)
Linked(db, o, mi) ==
  [menu_item_id |-> mi.id, order_id |-> o.id] \in db.menu_item_orders

\* the row of NULLs a LEFT OUTER JOIN gives when nothing matches
NullRow == [id |-> NULL]

\* variant of JoinRows: the query without .filter(MenuItem.price == p)
JoinRowsNoFilter(db, p) ==
  { r \in [o : db.order, mi : db.menu_item, ft : db.food_truck] :
      /\ Linked(db, r.o, r.mi)
      /\ r.ft.id = r.mi.food_truck_id }

\* variant of JoinRows: .filter(MenuItem.price >= p)
JoinRowsAtLeast(db, p) ==
  { r \in [o : db.order, mi : db.menu_item, ft : db.food_truck] :
      /\ Linked(db, r.o, r.mi)
      /\ r.ft.id = r.mi.food_truck_id
      /\ r.mi.price >= p }

\* the rows of the two inner joins that pass the filter
JoinRows(db, p) ==
  { r \in [o : db.order, mi : db.menu_item, ft : db.food_truck] :
      /\ Linked(db, r.o, r.mi)
      /\ r.ft.id = r.mi.food_truck_id
      /\ r.mi.price = p }

\* variant of EagerItems: the collection filled from the filtered join
\* (contains_eager in place of joinedload)
EagerItemsFiltered(db, o) ==
  { mi \in db.menu_item : Linked(db, o, mi) /\ mi.price = inp.price }

\* joinedload(Order.menu_items): a LEFT OUTER JOIN through an alias of
\* menu_item_orders and menu_item, which the filter does not restrict
EagerItems(db, o) == { mi \in db.menu_item : Linked(db, o, mi) }

\* joinedload(Order.customer): person JOIN customer; no row, no object
EagerCustomer(db, o) ==
  { per \in db.person : o.customer_id = per.id /\ [id |-> per.id] \in db.customer }

\* joinedload(Order.employee).joinedload(Employee.food_truck)
EagerEmployee(db, o) ==
  { [id |-> e.id, type |-> per.type, first_name |-> per.first_name,
     last_name |-> per.last_name, food_truck_id |-> e.food_truck_id,
     food_truck |-> { ft \in db.food_truck : ft.id = e.food_truck_id }] :
      e \in { x \in db.employee : x.id = o.employee_id },
      per \in { y \in db.person : y.id = o.employee_id } }

\* variant of Outer: joinedload(..., innerjoin=True)
Inner(S) == S

\* LEFT OUTER JOIN: the matching rows, or one row of NULLs
Outer(S) == IF S = {} THEN {NullRow} ELSE S

\* the rows of the SELECT: every row of the inner joins, once per
\* combination of the rows the eager LEFT OUTER JOINs add to it
Rows(db, p) ==
  UNION { { [o |-> r.o, mi |-> r.mi, ft |-> r.ft,
             items |-> i, customer |-> c, employee |-> e] :
              i \in Outer(EagerItems(db, r.o)),
              c \in Outer(EagerCustomer(db, r.o)),
              e \in Outer(EagerEmployee(db, r.o)) } :
          r \in JoinRows(db, p) }

\* the Order object the loader builds from the rows of order o; a
\* relationship to one object is the empty set (None) or a singleton, and a
\* collection holds each object of its rows once
Loaded(rows, o) ==
  LET mine == { r \in rows : r.o = o }
  IN [id |-> o.id,
      menu_items |-> { r.items : r \in mine } \ {NullRow},
      customer |-> { r.customer : r \in mine } \ {NullRow},
      employee |-> { r.employee : r \in mine } \ {NullRow}]

\* the orders of the rows, each once (the loader keeps one object per identity)
Entities(rows) == { r.o : r \in rows }

\* the lists that hold every element of S once: no ORDER BY, any row order
Orderings(S) ==
  { f \in [1..Cardinality(S) -> S] : \A x \in S : \E i \in DOMAIN f : f[i] = x }

\* query.all()
QueryAll(db, p) ==
  LET rows == Rows(db, p)
  IN Orderings({ Loaded(rows, o) : o \in Entities(rows) })

(***************************************************************************)
(* Person.name and the line the loop prints.                               *)
(***************************************************************************)

\* variant of Or: `d if x is None else x`
OrNoneOnly(x, d) == IF x.present THEN x.v ELSE d

\* Python's `x or d` on a nullable string: None and "" are false
Or(x, d) == IF x.present /\ x.v # "" THEN x.v ELSE d

\* Person.name
PersonName(per) == Or(per.last_name, "NA") \o ", " \o Or(per.first_name, "NA")

The(S) == CHOOSE x \in S : TRUE

\* an attribute access on None in the arguments of print(...)
AccessFault(o) ==
  \/ o.customer = {}
  \/ o.employee = {}
  \/ The(o.employee).food_truck = {}

\* the five arguments of print(...)
Line(o, mi) ==
  [customer |-> PersonName(The(o.customer)),
   item |-> mi.name,
   price |-> mi.price,
   truck |-> The(The(o.employee).food_truck).name,
   type |-> The(The(o.employee).food_truck).type]

\* print(...) writes the line to standard output
Emit(lines, l) == Append(lines, l)

(***************************************************************************)
(* main().                                                                 *)
(***************************************************************************)

Init ==
  /\ inp \in Inputs
  /\ pc = "create_all"
  /\ tk = 1
  /\ session = <<>>
  /\ ident = NoIdent
  /\ store = EmptyStore
  /\ commits = 0
  /\ runs = 0
  /\ results = <<>>
  /\ ri = 1
  /\ todo = {}
  /\ out = <<>>
  /\ fault = "none"

\* db.create_all(): the in-memory database gets its (empty) tables
CreateAll ==
  /\ pc = "create_all"
  /\ pc' = "add_truck"
  /\ UNCHANGED <<inp, tk, session, ident, store, commits, runs, results, ri,
                 todo, out, fault>>

\* db.session.add(...): the unit is pending in the session
Add(at, unit, next) ==
  /\ pc = at
  /\ session' = Append(session, unit)
  /\ pc' = next
  /\ UNCHANGED <<inp, tk, ident, store, commits, runs, results, ri, todo, out,
                 fault>>

\* db.session.commit(): flush the pending units and commit; an INSERT that
\* violates a constraint raises IntegrityError, the transaction is rolled
\* back and, nothing catching the exception, main() ends
Commit(at, next, nextTk) ==
  /\ pc = at
  /\ IF Flushed.ok
       THEN /\ store' = Flushed.db
            /\ ident' = Flushed.ident
            /\ session' = <<>>
            /\ commits' = commits + 1
            /\ pc' = next
            /\ tk' = nextTk
            /\ fault' = fault
       ELSE /\ pc' = "fault"
            /\ fault' = "IntegrityError"
            /\ UNCHANGED <<store, ident, session, commits, tk>>
  /\ UNCHANGED <<inp, runs, results, ri, todo, out>>

\* taco_truck = TacoTruck(...); db.session.add(taco_truck)
AddTruck == Add("add_truck", <<"truck", tk>>, "commit_truck")

\* db.session.commit(), once per food truck of the input
CommitTruck ==
  IF tk < Len(inp.trucks)
    THEN Commit("commit_truck", "add_truck", tk + 1)
    ELSE Commit("commit_truck", "add_customer", tk)

\* customer = Customer(...); db.session.add(customer)
AddCustomer == Add("add_customer", <<"customer", NULL>>, "commit_customer")

CommitCustomer == Commit("commit_customer", "add_orders", tk)

\* orders = [Order(...), Order(...)]; db.session.add_all(orders)
AddOrders == Add("add_orders", <<"orders", NULL>>, "commit_orders")

CommitOrders == Commit("commit_orders", "print_query", tk)

\* query = ...; pretty_print_query(query): str(query) compiles the statement
\* and does not execute it
PrintQuery ==
  /\ pc = "print_query"
  /\ pc' = "query"
  /\ UNCHANGED <<inp, tk, session, ident, store, commits, runs, results, ri,
                 todo, out, fault>>

\* results = query.all(): the session autoflushes what is pending (nothing,
\* every unit being committed), then the SELECT runs
ExecQuery ==
  /\ pc = "query"
  /\ IF Flushed.ok
       THEN /\ store' = Flushed.db
            /\ ident' = Flushed.ident
            /\ session' = <<>>
            /\ results' \in QueryAll(Flushed.db, inp.price)
            /\ runs' = runs + 1
            /\ pc' = "banner"
            /\ fault' = fault
       ELSE /\ pc' = "fault"
            /\ fault' = "IntegrityError"
            /\ UNCHANGED <<store, ident, session, results, runs>>
  /\ UNCHANGED <<inp, tk, commits, ri, todo, out>>

\* the menu items the inner loop has to visit for results[i]
ItemsAt(res, i) == IF i <= Len(res) THEN res[i].menu_items ELSE {}

\* print("-" * 25 + " STARTING " + "-" * 25); the outer loop takes results[1]
Banner ==
  /\ pc = "banner"
  /\ pc' = "render"
  /\ ri' = 1
  /\ todo' = ItemsAt(results, 1)
  /\ UNCHANGED <<inp, tk, session, ident, store, commits, runs, results, out,
                 fault>>

\* variant of RenderLine: an order that lacks a relationship is skipped
RenderLineSkipping ==
  /\ pc = "render"
  /\ ri <= Len(results)
  /\ \E mi \in todo :
       IF AccessFault(results[ri])
         THEN /\ todo' = {}
              /\ UNCHANGED <<pc, fault, out>>
         ELSE /\ out' = Emit(out, Line(results[ri], mi))
              /\ todo' = todo \ {mi}
              /\ UNCHANGED <<pc, fault>>
  /\ UNCHANGED <<inp, tk, session, ident, store, commits, runs, results, ri>>

\* one pass of the inner loop: print(...) for a menu item of results[ri];
\* order.customer.name or order.employee.food_truck.name on None raises
\* AttributeError, which nothing catches
RenderLine ==
  /\ pc = "render"
  /\ ri <= Len(results)
  /\ \E mi \in todo :
       IF AccessFault(results[ri])
         THEN /\ pc' = "fault"
              /\ fault' = "AttributeError"
              /\ UNCHANGED <<todo, out>>
         ELSE /\ out' = Emit(out, Line(results[ri], mi))
              /\ todo' = todo \ {mi}
              /\ UNCHANGED <<pc, fault>>
  /\ UNCHANGED <<inp, tk, session, ident, store, commits, runs, results, ri>>

\* the inner loop is exhausted: the outer loop takes the next order
NextOrder ==
  /\ pc = "render"
  /\ ri <= Len(results)
  /\ todo = {}
  /\ ri' = ri + 1
  /\ todo' = ItemsAt(results, ri + 1)
  /\ UNCHANGED <<inp, pc, tk, session, ident, store, commits, runs, results,
                 out, fault>>

\* the outer loop is exhausted: main() returns
Finish ==
  /\ pc = "render"
  /\ ri > Len(results)
  /\ pc' = "done"
  /\ UNCHANGED <<inp, tk, session, ident, store, commits, runs, results, ri,
                 todo, out, fault>>

Next ==
  \/ CreateAll
  \/ AddTruck
  \/ CommitTruck
  \/ AddCustomer
  \/ CommitCustomer
  \/ AddOrders
  \/ CommitOrders
  \/ PrintQuery
  \/ ExecQuery
  \/ Banner
  \/ RenderLine
  \/ NextOrder
  \/ Finish

Spec == Init /\ [][Next]_vars

(***************************************************************************)
(* Properties.                                                             *)
(***************************************************************************)

\* the ids of the orders of a result list
ResultIds(res) == { res[i].id : i \in DOMAIN res }

\* a result list names no order twice
NoRepeat(res) ==
  \A i \in DOMAIN res : \A j \in DOMAIN res : i # j => res[i].id # res[j].id

\* the stored orders with at least one linked menu item of price p
OrdersWithPrice(p) ==
  { o \in store.order :
      \E mi \in store.menu_item :
        /\ [menu_item_id |-> mi.id, order_id |-> o.id] \in store.menu_item_orders
        /\ mi.price = p }

\* C1: once the query has been executed, its result is exactly the set of
\* stored orders that include at least one menu item whose price is the
\* filter price, none listed twice; on the fixture (price 700) that is both
\* orders.
C1_ExactSelection ==
  runs >= 1 =>
    /\ ResultIds(results) = { o.id : o \in OrdersWithPrice(inp.price) }
    /\ NoRepeat(results)
    /\ (inp = Fixture => Len(results) = 2)

\* one of two stored orders is returned; the other has menu items, none of
\* them at the filter price
C1_Witness ==
  /\ runs >= 1
  /\ Len(results) = 1
  /\ \A o \in store.order : \E l \in store.menu_item_orders : l.order_id = o.id
  /\ Cardinality(store.order) = 2

FixtureSuperLine ==
  [customer |-> "NA, Frenchy", item |-> "Super Burrito", price |-> 1000,
   truck |-> "Hell's Chariot", type |-> "taco_truck"]
FixtureCaliforniaLine ==
  [customer |-> "NA, Frenchy", item |-> "California Burrito", price |-> 700,
   truck |-> "Hell's Chariot", type |-> "taco_truck"]

\* C2 as stated: on the fixture with filter price 700 the run prints exactly
\* two lines, each ("Frenchy", "California Burrito", 700, "Hell's Chariot",
\* the type tag of the truck).
C2_AsStated ==
  (inp = Fixture /\ pc = "done") =>
    /\ Len(out) = 2
    /\ \A i \in DOMAIN out :
         /\ out[i].customer = "Frenchy"
         /\ out[i].item = "California Burrito"
         /\ out[i].price = 700
         /\ out[i].truck = "Hell's Chariot"
         /\ out[i].type \in {"food_truck", "taco_truck"}

\* C2 amended: on the fixture with filter price 700 the run does not fault
\* and prints exactly three lines, one per menu item of each returned order:
\* for order 1 ("NA, Frenchy", "Super Burrito", 1000, "Hell's Chariot",
\* "taco_truck") and ("NA, Frenchy", "California Burrito", 700, "Hell's
\* Chariot", "taco_truck"), for order 2 the California Burrito line again.
C2_Amended ==
  inp = Fixture =>
    /\ pc # "fault"
    /\ pc = "done" =>
         out \in { <<FixtureSuperLine, FixtureCaliforniaLine, FixtureCaliforniaLine>>,
                   <<FixtureCaliforniaLine, FixtureSuperLine, FixtureCaliforniaLine>>,
                   <<FixtureCaliforniaLine, FixtureCaliforniaLine, FixtureSuperLine>> }

C2_Witness == inp = Fixture /\ pc = "done" /\ Len(out) = 3

\* no stored menu item has the filter price
NoItemAtPrice == \A mi \in store.menu_item : mi.price # inp.price

\* C3: when no menu item has the filter price, the query returns the empty
\* list and the run prints no result line and ends without fault in the loop.
C3_EmptyResult ==
  NoItemAtPrice =>
    /\ runs >= 1 => results = <<>>
    /\ out = <<>>
    /\ fault # "AttributeError"

C3_Witness ==
  /\ pc = "done"
  /\ NoItemAtPrice
  /\ store.order # {}
  /\ store.menu_item_orders # {}

\* no two rows of food_truck, of either class, have the same name
UniqueNames ==
  \A a \in store.food_truck : \A b \in store.food_truck :
    a.name = b.name => a = b

\* the commit at hand inserts a truck whose name a stored truck has
DuplicateAttempt ==
  /\ pc = "commit_truck"
  /\ \E r \in store.food_truck : r.name = inp.trucks[tk].name

\* C4: no two stored food trucks ever have the same name; a commit that
\* inserts a truck with the name of a stored truck ends the run with
\* IntegrityError and leaves the stored tables as they were.
C4_UniqueName ==
  /\ []UniqueNames
  /\ [][DuplicateAttempt =>
          (pc' = "fault" /\ fault' = "IntegrityError" /\ store' = store)]_vars
  /\ [][fault' = "IntegrityError" => (DuplicateAttempt /\ store' = store)]_vars

C4_Witness ==
  /\ pc = "fault"
  /\ fault = "IntegrityError"
  /\ Cardinality(store.food_truck) = 1
  /\ commits = 1

\* `x or "NA"` read as: the value when it is not None, "NA" otherwise
PresentOrNA(x) == IF x.present THEN x.v ELSE "NA"

\* `x or "NA"`: the value when it is neither None nor empty, "NA" otherwise
NonEmptyOrNA(x) == IF x.present /\ x.v # "" THEN x.v ELSE "NA"

\* the three persons the claim names
Nameless == [first_name |-> None, last_name |-> None]
OnlyDee == [first_name |-> None, last_name |-> Some("Dee")]
SandraDee == [first_name |-> Some("Sandra"), last_name |-> Some("Dee")]

\* C5 as stated: the display name of every stored person, and the name on
\* every printed line, is L, ", ", F with L the last name when present and
\* "NA" otherwise, F the first name when present and "NA" otherwise.
C5_AsStated ==
  /\ \A per \in store.person :
       PersonName(per) =
         PresentOrNA(per.last_name) \o ", " \o PresentOrNA(per.first_name)
  /\ \A i \in DOMAIN out :
       out[i].customer = PresentOrNA(inp.last) \o ", " \o PresentOrNA(inp.first)

\* C5 amended: the display name of every stored person (employee or
\* customer), and the name on every printed line, is L, ", ", F with L the
\* last name when it is present and not empty and "NA" otherwise, F the
\* first name likewise; both missing gives "NA, NA", only last name "Dee"
\* gives "Dee, NA", first name "Sandra" and last name "Dee" give
\* "Dee, Sandra".
C5_Amended ==
  /\ \A per \in store.person :
       PersonName(per) =
         NonEmptyOrNA(per.last_name) \o ", " \o NonEmptyOrNA(per.first_name)
  /\ \A i \in DOMAIN out :
       out[i].customer = NonEmptyOrNA(inp.last) \o ", " \o NonEmptyOrNA(inp.first)
  /\ PersonName(Nameless) = "NA, NA"
  /\ PersonName(OnlyDee) = "Dee, NA"
  /\ PersonName(SandraDee) = "Dee, Sandra"

\* a line was printed for a customer whose first name is the empty string
C5_Witness ==
  /\ out # <<>>
  /\ inp.first = Some("")
  /\ inp.last = Some("Dee")
  /\ out[1].customer = "Dee, NA"

\* the number of rows of each table
Counts ==
  [food_truck |-> Cardinality(store.food_truck),
   menu_item |-> Cardinality(store.menu_item),
   employee |-> Cardinality(store.employee),
   customer |-> Cardinality(store.customer),
   order |-> Cardinality(store.order)]

\* every item and employee references the one truck, every order the one
\* customer and an employee, and the two orders have different employees
FixtureReferences ==
  /\ \A mi \in store.menu_item : \E t \in store.food_truck : mi.food_truck_id = t.id
  /\ \A e \in store.employee : \E t \in store.food_truck : e.food_truck_id = t.id
  /\ \A o \in store.order :
       /\ \E c \in store.customer : o.customer_id = c.id
       /\ \E e \in store.employee : o.employee_id = e.id
  /\ \A a \in store.order : \A b \in store.order :
       a.employee_id = b.employee_id => a = b

\* the rows the fixture run has stored after each of its commits
AfterFirstCommit ==
  [food_truck |-> 1, menu_item |-> 3, employee |-> 2, customer |-> 0, order |-> 0]
AfterSecondCommit ==
  [food_truck |-> 1, menu_item |-> 3, employee |-> 2, customer |-> 1, order |-> 0]
AfterThirdCommit ==
  [food_truck |-> 1, menu_item |-> 3, employee |-> 2, customer |-> 1, order |-> 2]

\* what the fixture run has stored after each of its commits
C7_State ==
  /\ pc # "fault"
  /\ commits \in 0..3
  /\ commits = 0 => store = EmptyStore
  /\ commits = 1 => Counts = AfterFirstCommit
  /\ commits = 2 => Counts = AfterSecondCommit
  /\ commits = 3 => Counts = AfterThirdCommit /\ FixtureReferences
  /\ pc \in {"print_query", "query", "render", "done"} => commits = 3

\* the tables change only in a commit, never lose or change a row, and do
\* not change after the third commit
C7_Step ==
  /\ store' # store => commits' = commits + 1
  /\ \A t \in DOMAIN store : store[t] \subseteq store'[t]
  /\ commits = 3 => store' = store /\ commits' = 3

\* C7: on the fixture main() commits exactly three times: the first commit
\* stores the truck with its three items and two employees, the second the
\* customer, the third the two orders; after that the tables hold 1 truck,
\* 3 items, 2 employees, 1 customer, 2 orders with the references of the
\* fixture, and no row is changed or removed afterwards.
C7_ThreeCommits ==
  /\ [](inp = Fixture => C7_State)
  /\ [][inp = Fixture => C7_Step]_vars

C7_Witness == inp = Fixture /\ pc = "done" /\ commits = 3 /\ Counts.order = 2

Absent(o) ==
  \/ o.customer = {}
  \/ o.employee = {}
  \/ \E e \in o.employee : e.food_truck = {}

\* the loaded order r carries the stored relationships of order o in full
FullyLoaded(r, o) ==
  /\ r.menu_items \subseteq store.menu_item
  /\ { mi.id : mi \in r.menu_items } =
       { l.menu_item_id : l \in { x \in store.menu_item_orders : x.order_id = o.id } }
  /\ Cardinality(r.customer) <= 1
  /\ r.customer \subseteq store.person
  /\ { c.id : c \in r.customer } = { o.customer_id } \ {NULL}
  /\ Cardinality(r.employee) <= 1
  /\ { e.id : e \in r.employee } = { o.employee_id } \ {NULL}
  /\ \A e \in r.employee :
       /\ [id |-> e.id, food_truck_id |-> e.food_truck_id] \in store.employee
       /\ e.food_truck = { t \in store.food_truck : t.id = e.food_truck_id }

\* the orders the joins and the filter select, the options left out
SelectedWithoutOptions ==
  { o \in store.order :
      \E mi \in store.menu_item : \E t \in store.food_truck :
        /\ [menu_item_id |-> mi.id, order_id |-> o.id] \in store.menu_item_orders
        /\ t.id = mi.food_truck_id
        /\ mi.price = inp.price }

\* C9: every order the query returns carries all its stored menu items (not
\* only those of the filter price), its stored customer, its stored employee
\* and that employee's stored food truck; and the orders returned are
\* exactly those the joins and the filter select: the eager-load options
\* add none and remove none.
C9_EagerIndependent ==
  runs >= 1 =>
    /\ \A i \in DOMAIN results :
         \E o \in store.order : o.id = results[i].id /\ FullyLoaded(results[i], o)
    /\ ResultIds(results) = { o.id : o \in SelectedWithoutOptions }

\* a returned order has no customer and carries an item of another price
C9_Witness ==
  /\ runs >= 1
  /\ \E i \in DOMAIN results :
       /\ results[i].customer = {}
       /\ \E mi \in results[i].menu_items : mi.price # inp.price


\* the stored order o has no menu item
Itemless(o) == \A l \in store.menu_item_orders : l.order_id # o.id

\* the orders before position ri were rendered in full, and an order with a
\* line printed is being rendered: none of them lacks a relationship; the
\* fault is raised at an order that has a menu item and lacks a
\* relationship; an order with no menu item is not among the results, so
\* the loop never reaches it
C10_State ==
  /\ pc \in {"render", "done"} =>
       /\ \A i \in DOMAIN results : i < ri => ~Absent(results[i])
       /\ (ri \in DOMAIN results /\ todo # results[ri].menu_items) =>
            ~Absent(results[ri])
  /\ fault = "AttributeError" =>
       /\ ri \in DOMAIN results
       /\ results[ri].menu_items # {}
       /\ Absent(results[ri])
  /\ runs >= 1 =>
       \A o \in store.order : Itemless(o) => o.id \notin ResultIds(results)

\* the loop at an order with a menu item left and a relationship absent
\* raises AttributeError and prints nothing
C10_Step ==
  (pc = "render" /\ ri \in DOMAIN results /\ todo # {} /\ Absent(results[ri])) =>
    (pc' = "fault" /\ fault' = "AttributeError" /\ out' = out)

\* C10: a returned order with a menu item and no employee, an employee with
\* no food truck, or no customer is neither skipped nor printed with a
\* placeholder: the run ends with AttributeError when the loop reaches it.
\* A stored order with no menu items is not returned, so nothing is
\* printed for it and no fault is raised at it, whatever it lacks.
C10_FailsLoudly ==
  /\ []C10_State
  /\ [][C10_Step]_vars

\* the run faulted on a returned order that has a menu item and its
\* customer but no employee, while a stored order with no menu items, no
\* employee and no customer was left out of the results
C10_Witness ==
  /\ pc = "fault"
  /\ fault = "AttributeError"
  /\ results[ri].customer # {}
  /\ results[ri].employee = {}
  /\ \E o \in store.order :
       Itemless(o) /\ o.employee_id = NULL /\ o.customer_id = NULL

====
